---------------------------- MODULE Spec2Model ----------------------------
(***************************************************************************)
(* A model of json_parser.py: the URL extractor, the relevance ranker, the *)
(* trace extractor, the record flattener and the report assembler (main).  *)
(*                                                                         *)
(* A Python value is a pair <<type, payload>>.  A Python str is a sequence *)
(* of one-character strings, so that the regular expression, str.lower(),  *)
(* the substring test and json.dumps are computed character by character.  *)
(* A Python dict is a sequence of <<key, value>> pairs in insertion order  *)
(* with distinct keys; a Python list is a sequence.  JSON numbers are      *)
(* modelled by integers.                                                   *)
(***************************************************************************)
EXTENDS Integers, Sequences, FiniteSets, TLC

VARIABLES
    pc,               \* position of main, or of the function-level call
    input_file,       \* what open()/json.load() find at the input path
    json_data,        \* main: json_data
    metadata,         \* main: metadata
    chain,            \* main: chain
    tool_execs,       \* main: tool_execs
    flat_tool_execs,  \* main: flat_tool_execs
    all_urls,         \* main: all_urls
    sorted_urls,      \* main: sorted_urls
    attempted,        \* the output files whose write was attempted, in order
    created,          \* the output files that open(..., 'w') created
    stdout,           \* the diagnostics printed so far
    result,           \* "running", "returned", or the exception that escaped
    fn,               \* function-level call: the function called
    arg,              \* function-level call: its arguments
    ret               \* function-level call: its result

vars == <<pc, input_file, json_data, metadata, chain, tool_execs,
          flat_tool_execs, all_urls, sorted_urls, attempted, created,
          stdout, result, fn, arg, ret>>

mainVars == <<input_file, json_data, metadata, chain, tool_execs,
              flat_tool_execs, all_urls, sorted_urls, attempted, created,
              stdout, result>>

callVars == <<fn, arg, ret>>

----------------------------------------------------------------------------
(* Bounds of the model.                                                    *)

MaxPieces == 3      \* pieces a scanned string is built from
MaxDepth == 2       \* containers wrapped around a string in a document
MaxUrls == 3        \* URLs handed to the ranker
MaxKeywords == 2    \* keywords in a caller-supplied list
MaxSteps == 2       \* steps in chain_of_thought
MaxExecs == 2       \* records in one step's tool_executions

----------------------------------------------------------------------------
(* Python values.                                                          *)

None == <<"null", 0>>
Unset == <<"unset", 0>>
BoolV(b) == <<"bool", b>>
NumV(n) == <<"num", n>>
StrV(s) == <<"str", s>>
ListV(xs) == <<"list", xs>>
DictV(ps) == <<"dict", ps>>

Range(s) == {s[i] : i \in DOMAIN s}

NoDuplicates(s) == \A i, j \in DOMAIN s : i # j => s[i] # s[j]

RECURSIVE Flatten(_)
Flatten(ss) == IF ss = <<>> THEN <<>> ELSE Head(ss) \o Flatten(Tail(ss))

(* The orders in which a list can hold the elements of a set.              *)
Orderings(S) ==
    {s \in [1..Cardinality(S) -> S] : \A i, j \in DOMAIN s : i # j => s[i] # s[j]}

(* Outcome of a call: a value, or the exception that escapes it; out is    *)
(* what the call printed.                                                  *)
Ok(v) == [exc |-> "none", val |-> v, out |-> <<>>]
Raise(e) == [exc |-> e, val |-> Unset, out |-> <<>>]

(* Python truthiness, as tested by "if not json_data".                     *)
Truthy(x) ==
    CASE x[1] = "null" -> FALSE
      [] x[1] = "bool" -> x[2]
      [] x[1] = "num" -> x[2] # 0
      [] OTHER -> Len(x[2]) > 0

(* The field names, file names and pieces of text the program uses.        *)
K_chain_of_thought ==
    <<"c","h","a","i","n","_","o","f","_","t","h","o","u","g","h","t">>
K_tool_executions ==
    <<"t","o","o","l","_","e","x","e","c","u","t","i","o","n","s">>
K_tool_name == <<"t","o","o","l","_","n","a","m","e">>
K_method_name == <<"m","e","t","h","o","d","_","n","a","m","e">>
K_params == <<"p","a","r","a","m","s">>
K_output == <<"o","u","t","p","u","t">>
K_location == <<"l","o","c","a","t","i","o","n">>
K_time == <<"t","i","m","e">>
K_error == <<"e","r","r","o","r">>
K_observation == <<"o","b","s","e","r","v","a","t","i","o","n">>
K_url == <<"u","r","l">>

Http == <<"h","t","t","p",":","/","/">>
Https == <<"h","t","t","p","s",":","/","/">>

(* dict: key in d, d.get(key, default), d[key], d.values()                 *)
HasKey(d, k) == \E i \in DOMAIN d[2] : d[2][i][1] = k
DictGet(d, k, default) ==
    IF HasKey(d, k)
    THEN d[2][CHOOSE i \in DOMAIN d[2] : d[2][i][1] = k][2]
    ELSE default
DictValues(d) == [i \in DOMAIN d[2] |-> d[2][i][2]]
DictKeys(d) == [i \in DOMAIN d[2] |-> StrV(d[2][i][1])]

(* needle in haystack, for two Python strs                                 *)
IsSubstring(needle, hay) ==
    \E i \in 0..(Len(hay) - Len(needle)) :
        SubSeq(hay, i + 1, i + Len(needle)) = needle

(* obj.get(key, default): only a dict has the method.                      *)
PyGet(obj, k, default) ==
    IF obj[1] = "dict" THEN Ok(DictGet(obj, k, default)) ELSE Raise("AttributeError")

(* key in obj, for a str key.                                              *)
PyContains(obj, k) ==
    CASE obj[1] = "dict" -> Ok(HasKey(obj, k))
      [] obj[1] = "list" -> Ok(\E i \in DOMAIN obj[2] : obj[2][i] = StrV(k))
      [] obj[1] = "str" -> Ok(IsSubstring(k, obj[2]))
      [] OTHER -> Raise("TypeError")

(* obj[key], for a str key that "key in obj" has found.                    *)
PyGetItem(obj, k) ==
    IF obj[1] = "dict" THEN Ok(DictGet(obj, k, Unset)) ELSE Raise("TypeError")

(* The items "for x in obj" visits.                                        *)
PyIter(obj) ==
    CASE obj[1] = "list" -> Ok(obj[2])
      [] obj[1] = "dict" -> Ok(DictKeys(obj))
      [] obj[1] = "str" -> Ok([i \in DOMAIN obj[2] |-> StrV(<<obj[2][i]>>)])
      [] OTHER -> Raise("TypeError")

----------------------------------------------------------------------------
(* extract_urls: re.findall(r"https?://\S+", obj) and the recursive search *)

IsSpace(c) == c \in {" ", "\t", "\n", "\r"}

StartsWithAt(s, i, p) ==
    /\ i + Len(p) - 1 <= Len(s)
    /\ \A j \in 1..Len(p) : s[i + j - 1] = p[j]

(* Length of the text "https?://" matches at position i; 0 when it does    *)
(* not match there.                                                        *)
SchemeLen(s, i) ==
    IF StartsWithAt(s, i, Https) THEN Len(Https)
    ELSE IF StartsWithAt(s, i, Http) THEN Len(Http)
    ELSE 0

(* Last position of the run of non-whitespace characters that starts at i. *)
RECURSIVE RunEnd(_, _)
RunEnd(s, i) ==
    IF i < Len(s) /\ ~IsSpace(s[i + 1]) THEN RunEnd(s, i + 1) ELSE i

(* Last position of the match of the pattern that starts at i; 0 when the  *)
(* pattern does not match at i (\S+ needs one character at least).         *)
MatchEnd(s, i) ==
    LET n == SchemeLen(s, i)
    IN  IF n = 0 \/ i + n > Len(s) \/ IsSpace(s[i + n]) THEN 0
        ELSE RunEnd(s, i + n)

(* re.findall scans left to right; the search resumes after each match.    *)
RECURSIVE findall_from(_, _)
findall_from(s, i) ==
    IF i > Len(s) THEN <<>>
    ELSE LET e == MatchEnd(s, i)
         IN  IF e = 0 THEN findall_from(s, i + 1)
             ELSE <<SubSeq(s, i, e)>> \o findall_from(s, e + 1)

findall(s) == findall_from(s, 1)

(* search(obj): what the call appends to urls, in order.                   *)
RECURSIVE search(_)
search(obj) ==
    CASE obj[1] = "dict" ->
           Flatten([i \in DOMAIN obj[2] |-> search(DictValues(obj)[i])])
      [] obj[1] = "list" ->
           Flatten([i \in DOMAIN obj[2] |-> search(obj[2][i])])
      [] obj[1] = "str" -> findall(obj[2])
      [] OTHER -> <<>>

(* extract_urls returning urls as collected, without list(set(...)).       *)
extract_urls_keeps_duplicates(data) == {search(data)}

(* list(set(urls)): the order of the elements of a set of strs is not      *)
(* fixed (str hashes are randomised per process), so the call has one      *)
(* possible result per ordering of the set.                                *)
extract_urls(data) == Orderings(Range(search(data)))

----------------------------------------------------------------------------
(* sort_urls_by_relevance                                                  *)

UpperCase == <<"A","B","C","D","E","F","G","H","I","J","K","L","M",
               "N","O","P","Q","R","S","T","U","V","W","X","Y","Z">>
LowerCase == <<"a","b","c","d","e","f","g","h","i","j","k","l","m",
               "n","o","p","q","r","s","t","u","v","w","x","y","z">>

(* The lower-case letter of each upper-case letter.                        *)
to_lower ==
    [c \in Range(UpperCase) |->
        LowerCase[CHOOSE i \in DOMAIN UpperCase : UpperCase[i] = c]]

lower_char(c) == IF c \in DOMAIN to_lower THEN to_lower[c] ELSE c

(* str.lower()                                                             *)
lower(s) == [i \in DOMAIN s |-> lower_char(s[i])]

W_maps == <<"m","a","p","s">>
W_flights == <<"f","l","i","g","h","t","s">>
W_hotels == <<"h","o","t","e","l","s">>
W_booking == <<"b","o","o","k","i","n","g">>
W_price == <<"p","r","i","c","e">>
W_search == <<"s","e","a","r","c","h">>
W_showtimes == <<"s","h","o","w","t","i","m","e","s">>

default_keywords ==
    <<W_maps, W_flights, W_hotels, W_booking, W_price, W_search, W_showtimes>>

(* keywords is None or a list of strs.                                     *)
effective_keywords(keywords) ==
    IF keywords[1] = "null" THEN default_keywords ELSE keywords[2]

(* sum(1 for keyword in keywords if keyword in url.lower())                *)
url_score(url, keywords) ==
    LET lowered == lower(url)
    IN  Cardinality({i \in DOMAIN keywords : IsSubstring(keywords[i], lowered)})

(* The loop over urls: rel is url_relevance so far, a defaultdict(list)    *)
(* from score to the URLs with that score.                                 *)
RECURSIVE group_urls(_, _, _)
group_urls(urls, keywords, rel) ==
    IF urls = <<>> THEN rel
    ELSE LET url == Head(urls)
             score == url_score(url, keywords)
             bucket == IF score \in DOMAIN rel THEN rel[score] ELSE <<>>
         IN  group_urls(Tail(urls), keywords,
                        [k \in DOMAIN rel \cup {score} |->
                            IF k = score THEN Append(bucket, url) ELSE rel[k]])

(* url_relevance after the loop.                                           *)
url_relevance(urls, keywords) == group_urls(urls, keywords, <<>>)

(* sorted(keys) without reverse=True.                                      *)
RECURSIVE sorted_ascending(_)
sorted_ascending(S) ==
    IF S = {} THEN <<>>
    ELSE LET m == CHOOSE x \in S : \A y \in S : x <= y
         IN  <<m>> \o sorted_ascending(S \ {m})

(* sorted(keys, reverse=True)                                              *)
RECURSIVE sorted_reverse(_)
sorted_reverse(S) ==
    IF S = {} THEN <<>>
    ELSE LET m == CHOOSE x \in S : \A y \in S : y <= x
         IN  <<m>> \o sorted_reverse(S \ {m})

sort_urls_by_relevance(urls, keywords) ==
    LET kws == effective_keywords(keywords)
        rel == url_relevance(urls, kws)
        order == sorted_reverse(DOMAIN rel)
    IN  Flatten([i \in DOMAIN order |-> rel[order[i]]])

----------------------------------------------------------------------------
(* extract_chain_of_thought, extract_tool_executions                       *)

WARNING == "Warning: 'chain_of_thought' key not found in JSON. Using an empty list."

extract_chain_of_thought(data) ==
    LET absent == PyContains(data, K_chain_of_thought)
    IN  IF absent.exc # "none" THEN Raise(absent.exc)
        ELSE [PyGet(data, K_chain_of_thought, ListV(<<>>)) EXCEPT
                 !.out = IF absent.val THEN <<>> ELSE <<WARNING>>]

(* The loop over the steps with "tool_execs = list(step[...])" in place of *)
(* the append: each step's records replace the ones collected so far.      *)
RECURSIVE collect_steps_overwriting(_, _)
collect_steps_overwriting(steps, acc) ==
    IF steps = <<>> THEN Ok(ListV(acc))
    ELSE LET step == Head(steps)
             has == PyContains(step, K_tool_executions)
             execs == PyGetItem(step, K_tool_executions)
             items == PyIter(execs.val)
         IN  IF has.exc # "none" THEN Raise(has.exc)
             ELSE IF ~has.val THEN collect_steps_overwriting(Tail(steps), acc)
             ELSE IF execs.exc # "none" THEN Raise(execs.exc)
             ELSE IF items.exc # "none" THEN Raise(items.exc)
             ELSE collect_steps_overwriting(Tail(steps), items.val)

(* The loop over the steps: acc is tool_execs so far.                      *)
RECURSIVE collect_steps(_, _)
collect_steps(steps, acc) ==
    IF steps = <<>> THEN Ok(ListV(acc))
    ELSE LET step == Head(steps)
             has == PyContains(step, K_tool_executions)
             execs == PyGetItem(step, K_tool_executions)
             items == PyIter(execs.val)
         IN  IF has.exc # "none" THEN Raise(has.exc)
             ELSE IF ~has.val THEN collect_steps(Tail(steps), acc)
             ELSE IF execs.exc # "none" THEN Raise(execs.exc)
             ELSE IF items.exc # "none" THEN Raise(items.exc)
             ELSE collect_steps(Tail(steps), acc \o items.val)

extract_tool_executions(data) ==
    LET got == extract_chain_of_thought(data)
        steps == PyIter(got.val)
    IN  IF got.exc # "none" THEN got
        ELSE IF steps.exc # "none" THEN [Raise(steps.exc) EXCEPT !.out = got.out]
        ELSE [collect_steps(steps.val, <<>>) EXCEPT !.out = got.out]

----------------------------------------------------------------------------
(* json.dumps (default separators, ensure_ascii) and flatten_tool_execution *)

Digits == <<"0","1","2","3","4","5","6","7","8","9">>

RECURSIVE nat_digits(_)
nat_digits(n) ==
    IF n < 10 THEN <<Digits[n + 1]>>
    ELSE nat_digits(n \div 10) \o <<Digits[(n % 10) + 1]>>

int_digits(n) == IF n < 0 THEN <<"-">> \o nat_digits(-n) ELSE nat_digits(n)

escape_char(c) ==
    CASE c = "\"" -> <<"\\", "\"">>
      [] c = "\\" -> <<"\\", "\\">>
      [] c = "\n" -> <<"\\", "n">>
      [] c = "\r" -> <<"\\", "r">>
      [] c = "\t" -> <<"\\", "t">>
      [] OTHER -> <<c>>

dumps_str(s) ==
    <<"\"">> \o Flatten([i \in DOMAIN s |-> escape_char(s[i])]) \o <<"\"">>

(* The items of a container, separated by ", ".                            *)
RECURSIVE join_items(_)
join_items(texts) ==
    IF texts = <<>> THEN <<>>
    ELSE IF Len(texts) = 1 THEN texts[1]
    ELSE texts[1] \o <<",", " ">> \o join_items(Tail(texts))

RECURSIVE json_dumps(_)
json_dumps(x) ==
    CASE x[1] = "null" -> <<"n","u","l","l">>
      [] x[1] = "bool" ->
           IF x[2] THEN <<"t","r","u","e">> ELSE <<"f","a","l","s","e">>
      [] x[1] = "num" -> int_digits(x[2])
      [] x[1] = "str" -> dumps_str(x[2])
      [] x[1] = "list" ->
           <<"[">> \o join_items([i \in DOMAIN x[2] |-> json_dumps(x[2][i])])
                   \o <<"]">>
      [] x[1] = "dict" ->
           <<"{">> \o join_items([i \in DOMAIN x[2] |->
                          dumps_str(x[2][i][1]) \o <<":", " ">>
                              \o json_dumps(x[2][i][2])])
                   \o <<"}">>

(* flatten_tool_execution with the default of params used for output too.  *)
flatten_tool_execution_same_default(exec_data) ==
    IF exec_data[1] # "dict" THEN Raise("AttributeError")
    ELSE Ok(DictV(<<
        <<K_tool_name, DictGet(exec_data, K_tool_name, StrV(<<>>))>>,
        <<K_method_name, DictGet(exec_data, K_method_name, StrV(<<>>))>>,
        <<K_params, StrV(json_dumps(DictGet(exec_data, K_params, DictV(<<>>))))>>,
        <<K_output, StrV(json_dumps(DictGet(exec_data, K_output, DictV(<<>>))))>> >>))

flatten_tool_execution(exec_data) ==
    IF exec_data[1] # "dict" THEN Raise("AttributeError")
    ELSE Ok(DictV(<<
        <<K_tool_name, DictGet(exec_data, K_tool_name, StrV(<<>>))>>,
        <<K_method_name, DictGet(exec_data, K_method_name, StrV(<<>>))>>,
        <<K_params, StrV(json_dumps(DictGet(exec_data, K_params, DictV(<<>>))))>>,
        <<K_output, StrV(json_dumps(DictGet(exec_data, K_output, ListV(<<>>))))>> >>))

(* [flatten_tool_execution(exec_data) for exec_data in tool_execs]         *)
RECURSIVE flatten_all(_, _)
flatten_all(execs, acc) ==
    IF execs = <<>> THEN Ok(ListV(acc))
    ELSE LET flat == flatten_tool_execution(Head(execs))
         IN  IF flat.exc # "none" THEN Raise(flat.exc)
             ELSE flatten_all(Tail(execs), Append(acc, flat.val))

----------------------------------------------------------------------------
(* load_json                                                               *)

LOAD_ERROR == "Error loading JSON file"

(* The input path holds a JSON document, or open() or json.load() raises   *)
(* and the exception is caught and reported.                               *)
load_json(file) ==
    IF file.kind = "json" THEN Ok(file.doc)
    ELSE [Ok(None) EXCEPT !.out = <<LOAD_ERROR>>]

----------------------------------------------------------------------------
(* save_to_json, save_to_csv: the write is attempted; open() may fail, or  *)
(* the dump may fail after the file was created.  The exception is caught  *)
(* and reported.                                                           *)

WriteOutcomes == {"ok", "open_failed", "write_failed"}

JSON_OUT == "extracted_data.json"
TOOL_CSV_OUT == "tool_executions.csv"
URLS_CSV_OUT == "urls.csv"

JSON_ERROR == "Error saving to JSON"
CSV_ERROR == "Error saving to CSV"

save_to_json(data, output_file, outcome) ==
    /\ attempted' = Append(attempted,
                       [file |-> output_file, data |-> data, outcome |-> outcome])
    /\ created' = IF outcome = "open_failed" THEN created
                  ELSE created \cup {output_file}
    /\ stdout' = IF outcome = "ok" THEN stdout ELSE Append(stdout, JSON_ERROR)
    /\ result' = result

(* save_to_csv without the try/except: a failed write escapes.             *)
save_to_csv_uncaught(data, output_file, headers, outcome) ==
    /\ attempted' = Append(attempted,
                       [file |-> output_file, data |-> data, headers |-> headers,
                        outcome |-> outcome])
    /\ created' = IF outcome = "open_failed" THEN created
                  ELSE created \cup {output_file}
    /\ stdout' = stdout
    /\ result' = IF outcome = "ok" THEN result ELSE "OSError"

save_to_csv(data, output_file, headers, outcome) ==
    /\ attempted' = Append(attempted,
                       [file |-> output_file, data |-> data, headers |-> headers,
                        outcome |-> outcome])
    /\ created' = IF outcome = "open_failed" THEN created
                  ELSE created \cup {output_file}
    /\ stdout' = IF outcome = "ok" THEN stdout ELSE Append(stdout, CSV_ERROR)
    /\ result' = result

----------------------------------------------------------------------------
(* main                                                                    *)

NO_URLS == "No URLs were found in the JSON data."
NO_TOOLS == "No tool execution details found to export."
COMPLETE == "Data extraction complete. Files saved:"

StrList(ss) == ListV([i \in DOMAIN ss |-> StrV(ss[i])])

(* output_data, as main compiles it.                                       *)
output_data ==
    [metadata |-> metadata, chain_of_thought |-> chain,
     tool_executions |-> tool_execs, sorted_urls |-> sorted_urls]

(* Where main goes next: an exception that escaped ends it.                *)
Goto(label) == pc' = IF result' = "running" THEN label ELSE "done"

(* lines 119-124: output_folder is None, an existing directory, or a       *)
(* missing one, which os.makedirs creates or fails to create.              *)
MainOutputFolder ==
    /\ pc = "start"
    /\ \E folder \in {"None", "exists", "missing"}, made \in BOOLEAN :
          result' = IF folder = "missing" /\ ~made THEN "OSError" ELSE result
    /\ Goto("load")
    /\ UNCHANGED <<input_file, json_data, metadata, chain, tool_execs,
                   flat_tool_execs, all_urls, sorted_urls, attempted, created,
                   stdout>>
    /\ UNCHANGED callVars

(* main without the early return after load_json.                          *)
MainLoadJson_no_return ==
    /\ pc = "load"
    /\ LET loaded == load_json(input_file)
       IN  /\ json_data' = loaded.val
           /\ stdout' = stdout \o loaded.out
           /\ pc' = "metadata"
           /\ result' = result
    /\ UNCHANGED <<input_file, metadata, chain, tool_execs, flat_tool_execs,
                   all_urls, sorted_urls, attempted, created>>
    /\ UNCHANGED callVars

(* lines 127-129                                                           *)
MainLoadJson ==
    /\ pc = "load"
    /\ LET loaded == load_json(input_file)
       IN  /\ json_data' = loaded.val
           /\ stdout' = stdout \o loaded.out
           /\ IF Truthy(loaded.val)
              THEN pc' = "metadata" /\ result' = result
              ELSE pc' = "done" /\ result' = "returned"
    /\ UNCHANGED <<input_file, metadata, chain, tool_execs, flat_tool_execs,
                   all_urls, sorted_urls, attempted, created>>
    /\ UNCHANGED callVars

(* lines 132-137                                                           *)
MainMetadata ==
    /\ pc = "metadata"
    /\ LET location == PyGet(json_data, K_location, StrV(<<>>))
       IN  IF location.exc # "none"
           THEN /\ result' = location.exc
                /\ metadata' = metadata
           ELSE /\ result' = result
                /\ metadata' = DictV(<<
                      <<K_location, location.val>>,
                      <<K_time, DictGet(json_data, K_time, StrV(<<>>))>>,
                      <<K_error, DictGet(json_data, K_error, StrV(<<>>))>>,
                      <<K_observation,
                        DictGet(json_data, K_observation, StrV(<<>>))>> >>)
    /\ Goto("trace")
    /\ UNCHANGED <<input_file, json_data, chain, tool_execs, flat_tool_execs,
                   all_urls, sorted_urls, attempted, created, stdout>>
    /\ UNCHANGED callVars

(* lines 140-141                                                           *)
MainExtractTrace ==
    /\ pc = "trace"
    /\ LET got == extract_chain_of_thought(json_data)
           execs == extract_tool_executions(json_data)
       IN  IF got.exc # "none"
           THEN /\ result' = got.exc
                /\ stdout' = stdout \o got.out
                /\ UNCHANGED <<chain, tool_execs>>
           ELSE /\ chain' = got.val
                /\ stdout' = stdout \o got.out \o execs.out
                /\ IF execs.exc # "none"
                   THEN result' = execs.exc /\ tool_execs' = tool_execs
                   ELSE result' = result /\ tool_execs' = execs.val
    /\ Goto("flatten")
    /\ UNCHANGED <<input_file, json_data, metadata, flat_tool_execs, all_urls,
                   sorted_urls, attempted, created>>
    /\ UNCHANGED callVars

(* line 144                                                                *)
MainFlatten ==
    /\ pc = "flatten"
    /\ LET flat == flatten_all(tool_execs[2], <<>>)
       IN  IF flat.exc # "none"
           THEN result' = flat.exc /\ flat_tool_execs' = flat_tool_execs
           ELSE result' = result /\ flat_tool_execs' = flat.val
    /\ Goto("urls")
    /\ UNCHANGED <<input_file, json_data, metadata, chain, tool_execs, all_urls,
                   sorted_urls, attempted, created, stdout>>
    /\ UNCHANGED callVars

(* line 147                                                                *)
MainExtractUrls ==
    /\ pc = "urls"
    /\ \E urls \in extract_urls(json_data) : all_urls' = StrList(urls)
    /\ pc' = "sort"
    /\ UNCHANGED <<input_file, json_data, metadata, chain, tool_execs,
                   flat_tool_execs, sorted_urls, attempted, created, stdout,
                   result>>
    /\ UNCHANGED callVars

(* lines 148-151                                                           *)
MainSortUrls ==
    /\ pc = "sort"
    /\ LET ranked == sort_urls_by_relevance(
                         [i \in DOMAIN all_urls[2] |-> all_urls[2][i][2]], None)
       IN  /\ sorted_urls' = StrList(ranked)
           /\ stdout' = IF ranked = <<>> THEN Append(stdout, NO_URLS) ELSE stdout
    /\ pc' = "save_json"
    /\ UNCHANGED <<input_file, json_data, metadata, chain, tool_execs,
                   flat_tool_execs, all_urls, attempted, created, result>>
    /\ UNCHANGED callVars

(* lines 154-167                                                           *)
MainSaveJson ==
    /\ pc = "save_json"
    /\ \E outcome \in WriteOutcomes : save_to_json(output_data, JSON_OUT, outcome)
    /\ Goto("save_tool_csv")
    /\ UNCHANGED <<input_file, json_data, metadata, chain, tool_execs,
                   flat_tool_execs, all_urls, sorted_urls>>
    /\ UNCHANGED callVars

(* lines 170-174                                                           *)
MainSaveToolCsv ==
    /\ pc = "save_tool_csv"
    /\ IF flat_tool_execs[2] # <<>>
       THEN \E outcome \in WriteOutcomes :
               save_to_csv(flat_tool_execs, TOOL_CSV_OUT,
                           DictKeys(flat_tool_execs[2][1]), outcome)
       ELSE /\ stdout' = Append(stdout, NO_TOOLS)
            /\ UNCHANGED <<attempted, created, result>>
    /\ Goto("save_urls_csv")
    /\ UNCHANGED <<input_file, json_data, metadata, chain, tool_execs,
                   flat_tool_execs, all_urls, sorted_urls>>
    /\ UNCHANGED callVars

(* main without the "if sorted_urls:" around the URL export.               *)
MainSaveUrlsCsv_unguarded ==
    /\ pc = "save_urls_csv"
    /\ \E outcome \in WriteOutcomes :
          save_to_csv(
              ListV([i \in DOMAIN sorted_urls[2] |->
                        DictV(<< <<K_url, sorted_urls[2][i]>> >>)]),
              URLS_CSV_OUT, <<StrV(K_url)>>, outcome)
    /\ Goto("finish")
    /\ UNCHANGED <<input_file, json_data, metadata, chain, tool_execs,
                   flat_tool_execs, all_urls, sorted_urls>>
    /\ UNCHANGED callVars

(* lines 177-179                                                           *)
MainSaveUrlsCsv ==
    /\ pc = "save_urls_csv"
    /\ IF sorted_urls[2] # <<>>
       THEN \E outcome \in WriteOutcomes :
               save_to_csv(
                   ListV([i \in DOMAIN sorted_urls[2] |->
                             DictV(<< <<K_url, sorted_urls[2][i]>> >>)]),
                   URLS_CSV_OUT, <<StrV(K_url)>>, outcome)
       ELSE UNCHANGED <<attempted, created, stdout, result>>
    /\ Goto("finish")
    /\ UNCHANGED <<input_file, json_data, metadata, chain, tool_execs,
                   flat_tool_execs, all_urls, sorted_urls>>
    /\ UNCHANGED callVars

(* lines 181-186                                                           *)
MainFinish ==
    /\ pc = "finish"
    /\ stdout' = stdout \o <<COMPLETE, JSON_OUT>>
                   \o (IF flat_tool_execs[2] # <<>> THEN <<TOOL_CSV_OUT>> ELSE <<>>)
                   \o (IF sorted_urls[2] # <<>> THEN <<URLS_CSV_OUT>> ELSE <<>>)
    /\ result' = "returned"
    /\ pc' = "done"
    /\ UNCHANGED <<input_file, json_data, metadata, chain, tool_execs,
                   flat_tool_execs, all_urls, sorted_urls, attempted, created>>
    /\ UNCHANGED callVars

----------------------------------------------------------------------------
(* The inputs the model draws from.                                        *)

SeqsUpTo(S, n) == UNION {[1..k -> S] : k \in 0..n}

U_flights == Https \o W_flights \o <<".", "x", "/">> \o W_search
U_maps == Http \o W_maps \o <<".", "x">>
U_plain == Http \o <<"a">>
U_upper == Http \o <<"M", "A", "P", "S">>
U_twice == Http \o W_maps \o <<"/">> \o W_maps

T_none == <<"n", "o">>
T_one == <<"s", "e", "e", " ">> \o U_flights
T_many == U_plain \o <<" ">> \o U_maps \o <<"\n">> \o U_flights
T_dup == U_maps \o <<" ">> \o U_maps

NoteTexts == {T_none, T_one, T_many, T_dup}

K_notes == <<"n", "o", "t", "e", "s">>
K_q == <<"q">>
NYC == <<"N", "Y", "C">>
Sushi == <<"s", "u", "s", "h", "i">>

R_maps ==
    DictV(<< <<K_tool_name, StrV(W_maps)>>,
             <<K_params, DictV(<< <<K_q, StrV(Sushi)>> >>)>> >>)
R_flights ==
    DictV(<< <<K_tool_name, StrV(W_flights)>>, <<K_params, DictV(<<>>)>>,
             <<K_output, ListV(<<NumV(1)>>)>> >>)

StepWith(execs) == DictV(<< <<K_tool_executions, execs>> >>)

DocWith(c, text) ==
    DictV(<< <<K_location, StrV(NYC)>>, <<K_chain_of_thought, c>>,
             <<K_notes, StrV(text)>> >>)

(* Top-level values that are not a non-empty mapping.                      *)
OddDocs ==
    {None, BoolV(FALSE), BoolV(TRUE), NumV(0), NumV(5), StrV(<<>>),
     StrV(U_maps), ListV(<<>>), ListV(<<StrV(U_maps)>>), DictV(<<>>)}

(* Documents for main: steps and chains of the expected shape and of other *)
(* shapes, with and without chain_of_thought, with and without URLs.       *)
MainSteps ==
    {DictV(<<>>), StepWith(ListV(<<R_maps>>)),
     StepWith(ListV(<<R_flights, R_maps>>)), StepWith(ListV(<<NumV(1)>>)),
     StepWith(None), NumV(7), StrV(<<"x">>)}

MainChains ==
    {ListV(steps) : steps \in SeqsUpTo(MainSteps, MaxSteps)}
        \cup {None, NumV(3), StrV(<<"a", "b">>), DictV(<< <<K_q, NumV(1)>> >>)}

MainDocs ==
    {DocWith(c, T_one) : c \in MainChains}
        \cup {DocWith(ListV(<<StepWith(ListV(<<R_flights>>))>>), text) :
                 text \in NoteTexts}
        \cup {DictV(<< <<K_notes, StrV(text)>> >>) : text \in NoteTexts}
        \cup OddDocs

(* What the input path holds: a JSON document, or something that makes     *)
(* open() or json.load() raise.                                            *)
LoadFailures == {"missing", "unreadable", "invalid_encoding", "malformed"}

InputFiles ==
    {[kind |-> k] : k \in LoadFailures}
        \cup {[kind |-> "json", doc |-> d] : d \in MainDocs}

(* Documents for extract_urls: strings built from pieces, and strings      *)
(* nested in lists and mappings (one mapping key reads like a URL).        *)
Pieces == {Http, Https, <<"a">>, <<" ">>, U_maps}

ScanStrings == {Flatten(ps) : ps \in SeqsUpTo(Pieces, MaxPieces)}

Leaves == {StrV(T_one), StrV(T_many), StrV(U_maps), NumV(1)}

Wrap(x) ==
    {ListV(<<x>>), DictV(<< <<U_plain, x>> >>)}
        \cup {ListV(<<leaf, x>>) : leaf \in Leaves}
        \cup {DictV(<< <<K_q, x>>, <<U_twice, leaf>> >>) : leaf \in Leaves}

RECURSIVE Nested(_)
Nested(depth) ==
    IF depth = 0 THEN Leaves
    ELSE LET inner == Nested(depth - 1)
         IN  inner \cup UNION {Wrap(x) : x \in inner}

UrlDocs == {StrV(s) : s \in ScanStrings} \cup Nested(MaxDepth) \cup OddDocs

(* Inputs of the ranker.                                                   *)
RankUrls == {U_maps, U_flights, U_plain, U_upper, U_twice}

RankKeywords == {W_maps, W_search, <<"M", "a", "p", "s">>}

RankArgs ==
    {[urls |-> u, keywords |-> k] :
        u \in SeqsUpTo(RankUrls, MaxUrls),
        k \in {None} \cup {ListV(ks) : ks \in SeqsUpTo(RankKeywords, MaxKeywords)}}

(* Documents for extract_tool_executions.                                  *)
TraceSteps ==
    {StepWith(ListV(execs)) : execs \in SeqsUpTo({R_maps, R_flights}, MaxExecs)}
        \cup {DictV(<<>>), DictV(<< <<K_notes, StrV(T_one)>> >>)}

TraceDocs ==
    {DocWith(ListV(steps), T_none) : steps \in SeqsUpTo(TraceSteps, MaxSteps)}
        \cup {DocWith(c, T_none) : c \in {None, ListV(<<NumV(7)>>),
                                          ListV(<<StepWith(NumV(1))>>)}}
        \cup OddDocs

(* Records for flatten_tool_execution: every field present or absent.      *)
Field(k, x) == IF x = Unset THEN <<>> ELSE << <<k, x>> >>

Quoted == <<"a", "\"", "b", "\\", "\n">>

FlattenRecords ==
    {DictV(Field(K_tool_name, name) \o Field(K_notes, extra)
               \o Field(K_output, out) \o Field(K_method_name, method)
               \o Field(K_params, params)) :
        name \in {Unset, StrV(W_maps), NumV(3)},
        extra \in {Unset, StrV(T_one)},
        out \in {Unset, ListV(<<>>), ListV(<<NumV(1)>>), StrV(Quoted),
                 ListV(<<StrV(U_maps), NumV(-120)>>)},
        method \in {Unset, StrV(W_search)},
        params \in {Unset, DictV(<<>>), DictV(<< <<K_q, StrV(Sushi)>> >>),
                    DictV(<< <<K_q, ListV(<<None, BoolV(TRUE)>>)>>,
                             <<Quoted, BoolV(FALSE)>> >>)}}
        \cup {None, NumV(1), StrV(W_maps), ListV(<<R_maps>>)}

----------------------------------------------------------------------------
(* The program run: main on an input file.                                 *)

Init ==
    /\ pc = "start"
    /\ input_file \in InputFiles
    /\ json_data = Unset
    /\ metadata = Unset
    /\ chain = Unset
    /\ tool_execs = Unset
    /\ flat_tool_execs = Unset
    /\ all_urls = Unset
    /\ sorted_urls = Unset
    /\ attempted = <<>>
    /\ created = {}
    /\ stdout = <<>>
    /\ result = "running"
    /\ fn = "main"
    /\ arg = Unset
    /\ ret = Unset

Next ==
    \/ MainOutputFolder
    \/ MainLoadJson
    \/ MainMetadata
    \/ MainExtractTrace
    \/ MainFlatten
    \/ MainExtractUrls
    \/ MainSortUrls
    \/ MainSaveJson
    \/ MainSaveToolCsv
    \/ MainSaveUrlsCsv
    \/ MainFinish

Spec == Init /\ [][Next]_vars

----------------------------------------------------------------------------
(* The functions called on their own, on inputs main does not reach.       *)

CallInit ==
    /\ pc = "call"
    /\ \/ fn = "extract_urls" /\ arg \in {[data |-> d] : d \in UrlDocs}
       \/ fn = "sort_urls_by_relevance" /\ arg \in RankArgs
       \/ fn = "extract_tool_executions"
             /\ arg \in {[data |-> d] : d \in TraceDocs}
       \/ fn = "flatten_tool_execution"
             /\ arg \in {[exec_data |-> r] : r \in FlattenRecords}
    /\ ret = Unset
    /\ input_file = Unset
    /\ json_data = Unset
    /\ metadata = Unset
    /\ chain = Unset
    /\ tool_execs = Unset
    /\ flat_tool_execs = Unset
    /\ all_urls = Unset
    /\ sorted_urls = Unset
    /\ attempted = <<>>
    /\ created = {}
    /\ stdout = <<>>
    /\ result = "running"

CallExtractUrls ==
    /\ pc = "call" /\ fn = "extract_urls"
    /\ \E urls \in extract_urls(arg.data) : ret' = Ok(urls)
    /\ pc' = "returned"
    /\ UNCHANGED <<fn, arg>>
    /\ UNCHANGED mainVars

(* The call returns the ranked list; url_relevance is its local grouping.  *)
CallSortUrls ==
    /\ pc = "call" /\ fn = "sort_urls_by_relevance"
    /\ ret' = [exc |-> "none",
               val |-> sort_urls_by_relevance(arg.urls, arg.keywords),
               out |-> <<>>,
               url_relevance |->
                   url_relevance(arg.urls, effective_keywords(arg.keywords))]
    /\ pc' = "returned"
    /\ UNCHANGED <<fn, arg>>
    /\ UNCHANGED mainVars

CallExtractToolExecutions ==
    /\ pc = "call" /\ fn = "extract_tool_executions"
    /\ ret' = extract_tool_executions(arg.data)
    /\ pc' = "returned"
    /\ UNCHANGED <<fn, arg>>
    /\ UNCHANGED mainVars

CallFlatten ==
    /\ pc = "call" /\ fn = "flatten_tool_execution"
    /\ ret' = flatten_tool_execution(arg.exec_data)
    /\ pc' = "returned"
    /\ UNCHANGED <<fn, arg>>
    /\ UNCHANGED mainVars

CallNext ==
    \/ CallExtractUrls
    \/ CallSortUrls
    \/ CallExtractToolExecutions
    \/ CallFlatten

SpecCalls == CallInit /\ [][CallNext]_vars

----------------------------------------------------------------------------
(* Properties of the functions.                                            *)

Returned(f) == fn = f /\ pc = "returned"

(* The string values of a document: reached through mapping values and     *)
(* sequence elements, at any depth.                                        *)
RECURSIVE StringValues(_)
StringValues(x) ==
    CASE x[1] = "str" -> {x[2]}
      [] x[1] = "list" -> UNION {StringValues(x[2][i]) : i \in DOMAIN x[2]}
      [] x[1] = "dict" -> UNION {StringValues(x[2][i][2]) : i \in DOMAIN x[2]}
      [] OTHER -> {}

HasScheme(s, i) == StartsWithAt(s, i, Http) \/ StartsWithAt(s, i, Https)

(* s[i..e] is a URL match of s: a scheme followed by a non-empty run of    *)
(* non-whitespace characters that runs up to whitespace or the end of s,   *)
(* and that does not begin inside the match of an earlier scheme of the    *)
(* same run (matches do not overlap).                                      *)
IsUrlMatch(s, i, e) ==
    /\ \E p \in {Http, Https} : StartsWithAt(s, i, p) /\ i + Len(p) <= e
    /\ \A j \in i..e : ~IsSpace(s[j])
    /\ e = Len(s) \/ IsSpace(s[e + 1])
    /\ ~\E j \in 1..(i - 1) :
          HasScheme(s, j) /\ \A m \in j..i : ~IsSpace(s[m])

UrlMatches(s) ==
    LET starts == {i \in 1..Len(s) : HasScheme(s, i)}
        ends == {e \in 1..Len(s) : e = Len(s) \/ IsSpace(s[e + 1])}
    IN  {SubSeq(s, ie[1], ie[2]) :
            ie \in {x \in starts \X ends : IsUrlMatch(s, x[1], x[2])}}

(* C1: for every document extract_urls returns, without an error, a list   *)
(* with no duplicates whose elements are exactly the URL matches found in  *)
(* the document's string values at any depth (mapping keys contribute      *)
(* nothing, a string with several URLs contributes each, no match gives    *)
(* the empty list), and every element begins with http:// or https://.     *)
C1_UrlsExactNoDuplicates ==
    Returned("extract_urls") =>
        /\ ret.exc = "none"
        /\ NoDuplicates(ret.val)
        /\ Range(ret.val) = UNION {UrlMatches(s) : s \in StringValues(arg.data)}
        /\ \A i \in DOMAIN ret.val : HasScheme(ret.val[i], 1)

(* A mapping nested in the document has a key that reads like a URL and    *)
(* string values with three URLs between them: the three are returned,     *)
(* the key is not.                                                         *)
C1_Witness ==
    /\ Returned("extract_urls")
    /\ arg.data[1] = "dict"
    /\ HasKey(arg.data, U_twice)
    /\ Len(ret.val) = 3
    /\ U_twice \notin Range(ret.val)

(* The score of each URL of a list under a keyword list.                   *)
Scores(urls, keywords) ==
    [u \in Range(urls) |-> url_score(u, keywords)]

(* C2: in the ranked list every URL with a higher score comes before every *)
(* URL with a lower score, and the URLs of one score keep the order they   *)
(* had in the input.                                                       *)
C2_RankedByScoreStable ==
    Returned("sort_urls_by_relevance") =>
        LET kws == effective_keywords(arg.keywords)
            out == ret.val
            score == Scores(arg.urls \o out, kws)
        IN  /\ \A i, j \in DOMAIN out :
                  score[out[i]] > score[out[j]] => i < j
            /\ \A k \in 0..Len(kws) :
                  LET HasScore(u) == score[u] = k
                  IN  SelectSeq(out, HasScore) = SelectSeq(arg.urls, HasScore)

(* Three URLs, two of one score in input order after a lower-scored first  *)
(* one: the ranker has to move the first URL behind the other two.         *)
C2_Witness ==
    /\ Returned("sort_urls_by_relevance")
    /\ Len(arg.urls) = 3
    /\ LET score == Scores(arg.urls, effective_keywords(arg.keywords))
       IN  /\ score[arg.urls[1]] < score[arg.urls[2]]
           /\ score[arg.urls[2]] = score[arg.urls[3]]
           /\ arg.urls[2] # arg.urls[3]
           /\ score[arg.urls[1]] = 0
           /\ ret.val = <<arg.urls[2], arg.urls[3], arg.urls[1]>>

(* The number of distinct keywords of the list that occur in the URL when  *)
(* keyword and URL are compared without regard to case.                    *)
DistinctKeywordMatches(url, keywords) ==
    LET lowered == lower(url)
    IN  Cardinality({k \in Range(keywords) : IsSubstring(lower(k), lowered)})

(* C3: the score the ranker gives a URL (the bucket of url_relevance it    *)
(* puts the URL in) is the number of distinct keywords of the list, the    *)
(* default one or the caller's, that occur in the URL case-insensitively.  *)
C3_ScoreIsDistinctKeywordCount ==
    Returned("sort_urls_by_relevance") =>
        \A i \in DOMAIN arg.urls :
            LET n == DistinctKeywordMatches(arg.urls[i],
                                            effective_keywords(arg.keywords))
            IN  /\ n \in DOMAIN ret.url_relevance
                /\ arg.urls[i] \in Range(ret.url_relevance[n])

(* The records of a step, for a step that is a mapping.                    *)
StepExecs(step) ==
    IF HasKey(step, K_tool_executions)
    THEN DictGet(step, K_tool_executions, Unset)[2]
    ELSE <<>>

(* chain_of_thought is a sequence of step mappings whose tool_executions,  *)
(* where present, are sequences.                                           *)
IsTrace(data) ==
    /\ data[1] = "dict"
    /\ HasKey(data, K_chain_of_thought)
    /\ LET c == DictGet(data, K_chain_of_thought, Unset)
       IN  /\ c[1] = "list"
           /\ \A i \in DOMAIN c[2] :
                 /\ c[2][i][1] = "dict"
                 /\ HasKey(c[2][i], K_tool_executions) =>
                       DictGet(c[2][i], K_tool_executions, Unset)[1] = "list"

(* Number of records in the first n steps.                                 *)
RECURSIVE ExecsBefore(_, _)
ExecsBefore(steps, n) ==
    IF n = 0 THEN 0
    ELSE ExecsBefore(steps, n - 1) + Len(StepExecs(steps[n]))

(* C9: for a document whose chain_of_thought is a sequence of step         *)
(* mappings, extract_tool_executions returns the steps' records in step    *)
(* order and, within a step, in the step's order: record j of step n is    *)
(* the result's element number (records of the steps before n) + j, and    *)
(* the result's length is the sum of the steps' numbers of records.        *)
C9_ToolExecutionsConcatenated ==
    (Returned("extract_tool_executions") /\ IsTrace(arg.data)) =>
        LET steps == DictGet(arg.data, K_chain_of_thought, Unset)[2]
        IN  /\ ret.exc = "none"
            /\ ret.val[1] = "list"
            /\ Len(ret.val[2]) = ExecsBefore(steps, Len(steps))
            /\ \A n \in DOMAIN steps :
                  \A j \in DOMAIN StepExecs(steps[n]) :
                      ret.val[2][ExecsBefore(steps, n - 1) + j]
                          = StepExecs(steps[n])[j]

(* A step with two different records, then a step without the field, then  *)
(* a step with one record.                                                 *)
C9_Witness ==
    /\ Returned("extract_tool_executions")
    /\ IsTrace(arg.data)
    /\ LET steps == DictGet(arg.data, K_chain_of_thought, Unset)[2]
       IN  /\ Len(steps) = 2
           /\ StepExecs(steps[1]) = <<R_flights, R_maps>>
           /\ StepExecs(steps[2]) = <<R_flights>>
    /\ ret.val = ListV(<<R_flights, R_maps, R_flights>>)

(* The text '{"q": "sushi"}'.                                              *)
SushiParamsText ==
    <<"{", "\"", "q", "\"", ":", " ", "\"", "s", "u", "s", "h", "i", "\"", "}">>

(* C10: for a record that is a mapping, flatten_tool_execution returns a   *)
(* mapping with exactly the fields tool_name, method_name, params, output; *)
(* tool_name and method_name are the record's values, or the empty string  *)
(* when absent; params and output are the JSON text of the record's        *)
(* values, '{}' and '[]' when absent.  The record                          *)
(* {"tool_name": "maps", "params": {"q": "sushi"}} gives params            *)
(* '{"q": "sushi"}', method_name '' and output '[]'.                       *)
C10_FlattenFourFields ==
    (Returned("flatten_tool_execution") /\ arg.exec_data[1] = "dict") =>
        LET rec == arg.exec_data
            flat == ret.val
            Value(k) == DictGet(flat, k, Unset)
        IN  /\ ret.exc = "none"
            /\ flat[1] = "dict"
            /\ DictKeys(flat) = <<StrV(K_tool_name), StrV(K_method_name),
                                  StrV(K_params), StrV(K_output)>>
            /\ Value(K_tool_name) =
                  (IF HasKey(rec, K_tool_name)
                   THEN DictGet(rec, K_tool_name, Unset) ELSE StrV(<<>>))
            /\ Value(K_method_name) =
                  (IF HasKey(rec, K_method_name)
                   THEN DictGet(rec, K_method_name, Unset) ELSE StrV(<<>>))
            /\ Value(K_params) =
                  (IF HasKey(rec, K_params)
                   THEN StrV(json_dumps(DictGet(rec, K_params, Unset)))
                   ELSE StrV(<<"{", "}">>))
            /\ Value(K_output) =
                  (IF HasKey(rec, K_output)
                   THEN StrV(json_dumps(DictGet(rec, K_output, Unset)))
                   ELSE StrV(<<"[", "]">>))
            /\ rec = R_maps =>
                  /\ Value(K_params) = StrV(SushiParamsText)
                  /\ Value(K_method_name) = StrV(<<>>)
                  /\ Value(K_output) = StrV(<<"[", "]">>)

(* The record of the example has been flattened.                           *)
C10_Witness ==
    /\ Returned("flatten_tool_execution")
    /\ arg.exec_data = R_maps
    /\ DictGet(ret.val, K_params, Unset) = StrV(SushiParamsText)
    /\ DictGet(ret.val, K_output, Unset) = StrV(<<"[", "]">>)

----------------------------------------------------------------------------
(* Properties of main.                                                     *)

(* load_json has been called and parsed the input, or failed to.           *)
LoadSucceeded == json_data # Unset /\ input_file.kind = "json"
LoadFailed == json_data # Unset /\ input_file.kind # "json"

Finished == pc = "done"

(* main has passed the first write of the output phase.                    *)
PastJsonWrite ==
    sorted_urls # Unset /\ pc \in {"save_tool_csv", "save_urls_csv", "finish", "done"}

AttemptedFiles == [i \in DOMAIN attempted |-> attempted[i].file]

Failures == {i \in DOMAIN attempted : attempted[i].outcome # "ok"}

Reports == {i \in DOMAIN stdout : stdout[i] \in {JSON_ERROR, CSV_ERROR}}

HasChainField(doc) == doc[1] = "dict" /\ HasKey(doc, K_chain_of_thought)

(* C4: when the parsed document has no top-level chain_of_thought, the run *)
(* does not end in an exception or before the output phase: the warning is *)
(* printed and extracted_data.json is attempted with chain_of_thought = [] *)
(* and tool_executions = [].                                               *)
C4_MissingChainNotFatal ==
    (Finished /\ LoadSucceeded /\ ~HasChainField(input_file.doc)) =>
        /\ result = "returned"
        /\ WARNING \in Range(stdout)
        /\ attempted # <<>>
        /\ attempted[1].file = JSON_OUT
        /\ attempted[1].data.chain_of_thought = ListV(<<>>)
        /\ attempted[1].data.tool_executions = ListV(<<>>)

(* C5: when load_json parses the input, whatever the document is, main    *)
(* returns normally: no exception escapes it.                              *)
C5_MainReturnsNormally ==
    LoadSucceeded => result \in {"running", "returned"}

(* C6: when loading fails, load_json reports the error and returns None    *)
(* without raising, and main returns at once with no write attempted and   *)
(* no output file created.                                                 *)
C6_LoadFailureReturnsEarly ==
    LoadFailed =>
        /\ input_file.kind \in LoadFailures
        /\ json_data = None
        /\ stdout = <<LOAD_ERROR>>
        /\ Finished
        /\ result = "returned"
        /\ attempted = <<>>
        /\ created = {}

C6_Witness ==
    /\ input_file.kind = "malformed"
    /\ Finished
    /\ result = "returned"
    /\ stdout = <<LOAD_ERROR>>

(* C7: in the output phase no failed write escapes main or stops it: each  *)
(* failed write is reported once, main returns normally, and whatever the  *)
(* outcomes the writes attempted are extracted_data.json, then             *)
(* tool_executions.csv if there are flattened records, then urls.csv if    *)
(* there are ranked URLs.                                                  *)
C7_WritesIndependent ==
    attempted # <<>> =>
        /\ result \in {"running", "returned"}
        /\ Cardinality(Reports) = Cardinality(Failures)
        /\ Finished =>
              /\ result = "returned"
              /\ AttemptedFiles =
                    <<JSON_OUT>>
                        \o (IF flat_tool_execs[2] # <<>>
                            THEN <<TOOL_CSV_OUT>> ELSE <<>>)
                        \o (IF sorted_urls[2] # <<>>
                            THEN <<URLS_CSV_OUT>> ELSE <<>>)

(* The JSON write and the tool CSV write both failed, the URL CSV write    *)
(* was made all the same, and main returned.                               *)
C7_Witness ==
    /\ Finished
    /\ result = "returned"
    /\ Len(attempted) = 3
    /\ attempted[1].outcome = "open_failed"
    /\ attempted[2].outcome = "write_failed"
    /\ attempted[3].outcome = "ok"
    /\ created = {TOOL_CSV_OUT, URLS_CSV_OUT}

(* C8: once main is past the JSON write, extracted_data.json has been      *)
(* attempted; urls.csv is never attempted or created when no URL was       *)
(* discovered, tool_executions.csv never when no record was collected;     *)
(* and when main has finished, each CSV has been attempted exactly when    *)
(* its collection is not empty.                                            *)
C8_CsvOnlyWhenNonEmpty ==
    PastJsonWrite =>
        LET files == Range(AttemptedFiles)
        IN  /\ JSON_OUT \in files
            /\ all_urls[2] = <<>> =>
                  URLS_CSV_OUT \notin files \cup created
            /\ tool_execs[2] = <<>> =>
                  TOOL_CSV_OUT \notin files \cup created
            /\ Finished =>
                  /\ URLS_CSV_OUT \in files <=> all_urls[2] # <<>>
                  /\ TOOL_CSV_OUT \in files <=> tool_execs[2] # <<>>

(* A finished run with records and without URLs: the JSON file and the     *)
(* tool CSV were written, urls.csv was not.                                *)
C8_Witness ==
    /\ Finished
    /\ result = "returned"
    /\ all_urls = ListV(<<>>)
    /\ tool_execs[2] # <<>>
    /\ AttemptedFiles = <<JSON_OUT, TOOL_CSV_OUT>>
    /\ created = {JSON_OUT, TOOL_CSV_OUT}

=============================================================================
